---- MODULE Spec2Model ----
(***************************************************************************)
(* Structural model of the gable garden roof (kertiteto).                  *)
(*                                                                         *)
(* The program is a configurator: five sliders feed update(), which calls  *)
(* buildStructure(params) and replaces the displayed model, then derives   *)
(* the metrics and the roofing layers from it.  The state is the current   *)
(* parameter set, the model last returned, its metrics, and the options    *)
(* and result of the last buildRoofing call; then the scene the model is   *)
(* shown in, and the price table, the progress of its download, the three  *)
(* option checkboxes and the contents of the pricing panel.                *)
(*                                                                         *)
(* Numbers.  The source computes with IEEE doubles.  Here every quantity   *)
(* is an exact rational <<n, d>> (d > 0, lowest terms); the only value     *)
(* that is not a rational is NonFinite, which stands for any of Infinity,  *)
(* -Infinity and NaN and is absorbing under arithmetic.  Rounding error is *)
(* not modelled: an equality below is the real-number identity that the    *)
(* repository's tests accept to a tolerance of 1e-6.                       *)
(*                                                                         *)
(* Revisions.  The repository holds several revisions of the structure     *)
(* assembler; buildStructure here is the one that returns ridgeTies and    *)
(* kneeBraces, as StructureModel in types.ts requires.  pillarCount is the *)
(* one of geometry.ts.                                                     *)
(*                                                                         *)
(* Angles.  A pitch is given by a right triangle <<opp, adj, hyp>> with    *)
(* integer sides, so that Math.tan and Math.cos are the exact rationals    *)
(* opp/adj and adj/hyp (5-12-13 is 22.62 degrees, 3-4-5 is 36.87 degrees). *)
(***************************************************************************)
EXTENDS Integers, Sequences, FiniteSets, TLC

VARIABLES params, model, thrown, metrics, options, roofing,
          scene, matDisposed, prices, fetchState, checked, pricing

vars == <<params, model, thrown, metrics, options, roofing,
          scene, matDisposed, prices, fetchState, checked, pricing>>

----------------------------------------------------------------------------
(* Rational arithmetic standing for the double arithmetic of the source.   *)

Abs(n) == IF n < 0 THEN -n ELSE n

RECURSIVE GCD(_, _)
GCD(a, b) == IF b = 0 THEN a ELSE GCD(b, a % b)

NonFinite == <<0, 0>>

IsFinite(a) == a[2] # 0

Norm(n, d) ==
  IF d = 0 THEN NonFinite
  ELSE LET g == GCD(Abs(n), Abs(d))
           s == IF d < 0 THEN -1 ELSE 1
       IN  <<(s * n) \div g, (s * d) \div g>>

R(n, d) == Norm(n, d)

\* a + b over the least common denominator
Add(a, b) ==
  IF ~IsFinite(a) \/ ~IsFinite(b) THEN NonFinite
  ELSE LET g == GCD(a[2], b[2])
       IN  Norm(a[1] * (b[2] \div g) + b[1] * (a[2] \div g), (a[2] \div g) * b[2])

Neg(a) == IF ~IsFinite(a) THEN NonFinite ELSE <<-a[1], a[2]>>

Sub(a, b) == Add(a, Neg(b))

\* a * b, common factors cancelled before multiplying
Mul(a, b) ==
  IF ~IsFinite(a) \/ ~IsFinite(b) THEN NonFinite
  ELSE LET g1 == GCD(Abs(a[1]), b[2])
           g2 == GCD(Abs(b[1]), a[2])
           n  == (a[1] \div g1) * (b[1] \div g2)
       IN  IF n = 0 THEN <<0, 1>> ELSE <<n, (a[2] \div g2) * (b[2] \div g1)>>

\* x / 0 is Infinity, -Infinity or NaN in the source: NonFinite here.
Div(a, b) ==
  IF ~IsFinite(a) \/ ~IsFinite(b) THEN NonFinite
  ELSE Norm(a[1] * b[2], a[2] * b[1])

\* Comparisons with NaN are false in the source; so are these.
Lt(a, b) == IsFinite(a) /\ IsFinite(b) /\ a[1] * b[2] < b[1] * a[2]

Le(a, b) == IsFinite(a) /\ IsFinite(b) /\ a[1] * b[2] <= b[1] * a[2]

Gt(a, b) == Lt(b, a)

\* Math.ceil
Ceil(a) ==
  IF ~IsFinite(a) THEN NonFinite
  ELSE <<-((-a[1]) \div a[2]), 1>>

\* Math.sign(-v) || 1
SignTowardCenter(v) == IF Gt(v, R(0, 1)) THEN R(-1, 1) ELSE R(1, 1)

Zero == R(0, 1)
Two == R(2, 1)

\* Math.abs
AbsR(a) == IF IsFinite(a) /\ a[1] < 0 THEN Neg(a) ELSE a

\* vs[lo] + ... + vs[hi], summed by halves (the sum is exact in any order)
RECURSIVE SumRange(_, _, _)
SumRange(vs, lo, hi) ==
  IF lo > hi THEN Zero
  ELSE IF lo = hi THEN vs[lo]
  ELSE LET mid == (lo + hi) \div 2
       IN  Add(SumRange(vs, lo, mid), SumRange(vs, mid + 1, hi))

\* reduce((sum, v) => sum + v, 0)
SumSeq(vs) == SumRange(vs, 1, Len(vs))

\* the value null, and the value of a property the object does not have
Null == [isNull |-> TRUE]
Undefined == [isUndefined |-> TRUE]

Half(a) == Div(a, Two)

----------------------------------------------------------------------------
(* Constants of the source.                                                *)

BIRD_MOUTH_PLUMB_HEIGHT == R(3, 100)
MAX_RAFTER_SPACING == R(9, 10)
MAX_UNSUPPORTED_SPAN == R(7, 2)

PILLAR_SIZE == R(15, 100)
PURLIN_SIZE == R(15, 100)
RIDGE_SIZE == R(10, 100)
RAFTER_WIDTH == R(75, 1000)
RAFTER_DEPTH == R(15, 100)
RIDGE_TIE_NOTCH == R(5, 100)
RIDGE_TIE_WIDTH == R(5, 100)
RIDGE_TIE_DEPTH == R(15, 100)
KNEE_BRACE_SIZE == R(10, 100)
KNEE_BRACE_LENGTH == R(1, 1)
PILLAR_HEIGHT == R(24, 10)

\* Math.cos(Math.PI / 4), to four decimals
COS_45 == R(7071, 10000)

----------------------------------------------------------------------------
(* Geometry primitives.                                                    *)

\* Math.tan(pitchDeg * DEG)
TanPitch(pitch) == Div(R(pitch.opp, 1), R(pitch.adj, 1))

\* Math.cos(pitchDeg * DEG)
CosPitch(pitch) == Div(R(pitch.adj, 1), R(pitch.hyp, 1))

ridgeHeight(width, pitch) == Mul(Half(width), TanPitch(pitch))

\* Variant: the eaves overhang left out of the horizontal run.
rafterLength_noOverhang(width, pitch, eavesOverhang) ==
  Div(Half(width), CosPitch(pitch))

rafterLength(width, pitch, eavesOverhang) ==
  LET run == Add(Half(width), eavesOverhang)
  IN  Div(run, CosPitch(pitch))

\* Variant: the comparison reversed, more pillars for the shorter building.
pillarCount_reversed(length) == IF Le(length, R(35, 10)) THEN 6 ELSE 4

pillarCount(length) == IF Le(length, R(35, 10)) THEN 4 ELSE 6

\* Variant: the seat depth taken as plumb height times tan(pitch).
birdMouthAtBasePurlin_timesTan(pitch) ==
  [plumbHeight |-> BIRD_MOUTH_PLUMB_HEIGHT,
   seatDepth   |-> Mul(BIRD_MOUTH_PLUMB_HEIGHT, TanPitch(pitch))]

birdMouthAtBasePurlin(pitch) ==
  [plumbHeight |-> BIRD_MOUTH_PLUMB_HEIGHT,
   seatDepth   |-> Div(BIRD_MOUTH_PLUMB_HEIGHT, TanPitch(pitch))]

birdMouthAtRidgePurlin(pitch) ==
  [seatDepth   |-> R(5, 100),
   plumbHeight |-> BIRD_MOUTH_PLUMB_HEIGHT]

----------------------------------------------------------------------------
(* Structure assembler.                                                    *)

Pt(x, y, z) == [x |-> x, y |-> y, z |-> z]

RECURSIVE ConcatAll(_)
ConcatAll(ss) == IF ss = <<>> THEN <<>> ELSE Head(ss) \o ConcatAll(Tail(ss))

makePurlin(x0, x1, y, z, size) ==
  [start |-> Pt(x0, y, z), end |-> Pt(x1, y, z), width |-> size, height |-> size]

makeTieBeam(x, y, zHalf) ==
  [start |-> Pt(x, y, Neg(zHalf)), end |-> Pt(x, y, zHalf)]

\* Variant: the three braces at both side pillars of every pillar row.
buildCornerKneeBraces_everyRow(pillarXPositions, width) ==
  LET leg       == Mul(KNEE_BRACE_LENGTH, COS_45)
      zHalf     == Sub(Half(width), Half(PILLAR_SIZE))
      yJunction == Add(PILLAR_HEIGHT, Half(PURLIN_SIZE))
      zSides    == <<Neg(zHalf), zHalf>>
      AtCorner(xP, zP) ==
        LET sx == SignTowardCenter(xP)
            sz == SignTowardCenter(zP)
            yLow == Sub(yJunction, leg)
            xIn  == Add(xP, Mul(sx, leg))
            zIn  == Add(zP, Mul(sz, leg))
        IN  << [start |-> Pt(xP, yLow, zP),       end |-> Pt(xP, yJunction, zIn)],
               [start |-> Pt(xP, yLow, zP),       end |-> Pt(xIn, yJunction, zP)],
               [start |-> Pt(xIn, yJunction, zP), end |-> Pt(xP, yJunction, zIn)] >>
  IN  ConcatAll([k \in 1..(2 * Len(pillarXPositions)) |->
                   AtCorner(pillarXPositions[(k + 1) \div 2], zSides[2 - (k % 2)])])

\* Variant: the brace length itself taken as the leg.
buildCornerKneeBraces_fullLeg(pillarXPositions, width) ==
  LET leg       == KNEE_BRACE_LENGTH
      zHalf     == Sub(Half(width), Half(PILLAR_SIZE))
      yJunction == Add(PILLAR_HEIGHT, Half(PURLIN_SIZE))
      cornerXs  == <<pillarXPositions[1], pillarXPositions[Len(pillarXPositions)]>>
      zSides    == <<Neg(zHalf), zHalf>>
      AtCorner(xP, zP) ==
        LET sx == SignTowardCenter(xP)
            sz == SignTowardCenter(zP)
            yLow == Sub(yJunction, leg)
            xIn  == Add(xP, Mul(sx, leg))
            zIn  == Add(zP, Mul(sz, leg))
        IN  << [start |-> Pt(xP, yLow, zP),       end |-> Pt(xP, yJunction, zIn)],
               [start |-> Pt(xP, yLow, zP),       end |-> Pt(xIn, yJunction, zP)],
               [start |-> Pt(xIn, yJunction, zP), end |-> Pt(xP, yJunction, zIn)] >>
  IN  ConcatAll([k \in 1..4 |-> AtCorner(cornerXs[(k + 1) \div 2], zSides[2 - (k % 2)])])

buildCornerKneeBraces(pillarXPositions, width) ==
  LET leg       == Mul(KNEE_BRACE_LENGTH, COS_45)
      zHalf     == Sub(Half(width), Half(PILLAR_SIZE))
      yJunction == Add(PILLAR_HEIGHT, Half(PURLIN_SIZE))
      cornerXs  == <<pillarXPositions[1], pillarXPositions[Len(pillarXPositions)]>>
      zSides    == <<Neg(zHalf), zHalf>>
      AtCorner(xP, zP) ==
        LET sx == SignTowardCenter(xP)
            sz == SignTowardCenter(zP)
            yLow == Sub(yJunction, leg)
            xIn  == Add(xP, Mul(sx, leg))
            zIn  == Add(zP, Mul(sz, leg))
        IN  << [start |-> Pt(xP, yLow, zP),       end |-> Pt(xP, yJunction, zIn)],
               [start |-> Pt(xP, yLow, zP),       end |-> Pt(xIn, yJunction, zP)],
               [start |-> Pt(xIn, yJunction, zP), end |-> Pt(xP, yJunction, zIn)] >>
  IN  ConcatAll([k \in 1..4 |-> AtCorner(cornerXs[(k + 1) \div 2], zSides[2 - (k % 2)])])

buildPillarXPositions(length, nPillars) ==
  LET xHalf == Sub(Half(length), Half(PILLAR_SIZE))
      rows  == nPillars \div 2
  IN  [k \in 1..rows |->
        Add(Neg(xHalf), Div(Mul(R(k - 1, 1), Mul(Two, xHalf)), R(rows - 1, 1)))]

\* Variant: a ridge pillar at every row.
buildPillars_everyRow(width, xPositions, ridgePillarHeight) ==
  LET zHalf     == Sub(Half(width), Half(PILLAR_SIZE))
      innerSpan == Sub(width, Mul(Two, PILLAR_SIZE))
      needsCenterPillar == Gt(innerSpan, MAX_UNSUPPORTED_SPAN)
      Row(k) ==
        LET x == xPositions[k]
        IN  << [base |-> Pt(x, Zero, Neg(zHalf)), height |-> PILLAR_HEIGHT],
               [base |-> Pt(x, Zero, zHalf),      height |-> PILLAR_HEIGHT] >>
            \o (IF needsCenterPillar
                THEN << [base |-> Pt(x, Zero, Zero), height |-> ridgePillarHeight] >>
                ELSE << >>)
  IN  ConcatAll([k \in 1..Len(xPositions) |-> Row(k)])

buildPillars(width, xPositions, ridgePillarHeight) ==
  LET zHalf     == Sub(Half(width), Half(PILLAR_SIZE))
      innerSpan == Sub(width, Mul(Two, PILLAR_SIZE))
      needsCenterPillar == Gt(innerSpan, MAX_UNSUPPORTED_SPAN)
      Row(k) ==
        LET x == xPositions[k]
        IN  << [base |-> Pt(x, Zero, Neg(zHalf)), height |-> PILLAR_HEIGHT],
               [base |-> Pt(x, Zero, zHalf),      height |-> PILLAR_HEIGHT] >>
            \o (IF needsCenterPillar /\ (k = 1 \/ k = Len(xPositions))
                THEN << [base |-> Pt(x, Zero, Zero), height |-> ridgePillarHeight] >>
                ELSE << >>)
  IN  ConcatAll([k \in 1..Len(xPositions) |-> Row(k)])

\* Variant: the plumb height added instead of subtracted.
rafterYOffset_plumbAdded(cosPitch) ==
  Add(BIRD_MOUTH_PLUMB_HEIGHT, Half(Div(RAFTER_DEPTH, cosPitch)))

\* Rafter centreline vertical offset above the bearing surface.
rafterYOffset(cosPitch) ==
  Add(Neg(BIRD_MOUTH_PLUMB_HEIGHT), Half(Div(RAFTER_DEPTH, cosPitch)))

\* Variant: the ridge height taken over the full width.
yRidgePurlinTop_fullWidth(width, pitch) ==
  Add(Add(PILLAR_HEIGHT, PURLIN_SIZE), ridgeHeight(width, pitch))

\* Ridge purlin top: the bird line runs at the pitch over (width - RIDGE_SIZE) / 2.
yRidgePurlinTop(width, pitch) ==
  Add(Add(PILLAR_HEIGHT, PURLIN_SIZE), ridgeHeight(Sub(width, RIDGE_SIZE), pitch))

\* Variant: tie beams at the two corner rows only.
tieBeams_cornersOnly(pillarXPositions, yPurlinCenter, zPurlin) ==
  << makeTieBeam(pillarXPositions[1], yPurlinCenter, zPurlin),
     makeTieBeam(pillarXPositions[Len(pillarXPositions)], yPurlinCenter, zPurlin) >>

\* One tie beam above every pillar row.
tieBeams(pillarXPositions, yPurlinCenter, zPurlin) ==
  [k \in 1..Len(pillarXPositions) |->
     makeTieBeam(pillarXPositions[k], yPurlinCenter, zPurlin)]

\* Variant: the ridge end placed at the ridge seat corner, not on the ridge line.
Rafter_ridgeAtSeat(x, yEave, yRafterAtRidge, zEave, bmBase, bmRidge, dBase, dRidge, rLength) ==
  [eaveEnd  |-> Pt(x, yEave, zEave),
   ridgeEnd |-> Pt(x, yRafterAtRidge, Half(RIDGE_SIZE)),
   birdMouthBase  |-> [seatDepth |-> bmBase.seatDepth, plumbHeight |-> bmBase.plumbHeight,
                       distanceFromEave |-> dBase],
   birdMouthRidge |-> [seatDepth |-> bmRidge.seatDepth, plumbHeight |-> bmRidge.plumbHeight,
                       distanceFromEave |-> dRidge],
   length |-> rLength]

\* The rafter pushed for one slope at position x; zEave is the signed eave z.
Rafter(x, yEave, yRafterAtRidge, zEave, bmBase, bmRidge, dBase, dRidge, rLength) ==
  [eaveEnd  |-> Pt(x, yEave, zEave),
   ridgeEnd |-> Pt(x, yRafterAtRidge, Zero),
   birdMouthBase  |-> [seatDepth |-> bmBase.seatDepth, plumbHeight |-> bmBase.plumbHeight,
                       distanceFromEave |-> dBase],
   birdMouthRidge |-> [seatDepth |-> bmRidge.seatDepth, plumbHeight |-> bmRidge.plumbHeight,
                       distanceFromEave |-> dRidge],
   length |-> rLength]

\* Variant: the sides flush with the rafter centreline, not its top face.
RidgeTie_flushWithCentreline(x, yRidgeTop, yRafterAtRidge, cosPitch, tanPitch) ==
  LET yRidgeTieTop    == Add(Sub(yRidgeTop, RIDGE_SIZE), RIDGE_TIE_NOTCH)
      yRidgeTieBottom == Sub(yRidgeTieTop, RIDGE_TIE_DEPTH)
      yRafterTop      == yRafterAtRidge
      zHalfTop        == Div(Sub(yRafterTop, yRidgeTieTop), tanPitch)
      zHalfBottom     == Add(zHalfTop, Div(RIDGE_TIE_DEPTH, tanPitch))
  IN  [x |-> x, yTop |-> yRidgeTieTop, yBottom |-> yRidgeTieBottom,
       zHalfTop |-> zHalfTop, zHalfBottom |-> zHalfBottom]

\* The ridge tie pushed at position x: a trapezoid with a level top and
\* sides parallel to the slope.
RidgeTie(x, yRidgeTop, yRafterAtRidge, cosPitch, tanPitch) ==
  LET yRidgeTieTop    == Add(Sub(yRidgeTop, RIDGE_SIZE), RIDGE_TIE_NOTCH)
      yRidgeTieBottom == Sub(yRidgeTieTop, RIDGE_TIE_DEPTH)
      yRafterTop      == Add(yRafterAtRidge, Div(RAFTER_DEPTH, Mul(Two, cosPitch)))
      zHalfTop        == Div(Sub(yRafterTop, yRidgeTieTop), tanPitch)
      zHalfBottom     == Add(zHalfTop, Div(RIDGE_TIE_DEPTH, tanPitch))
  IN  [x |-> x, yTop |-> yRidgeTieTop, yBottom |-> yRidgeTieBottom,
       zHalfTop |-> zHalfTop, zHalfBottom |-> zHalfBottom]

buildStructure(p) ==
  LET width == p.width
      length == p.length
      pitch == p.pitch
      eavesOverhang == p.eavesOverhang
      gableOverhang == p.gableOverhang
      cosPitch == CosPitch(pitch)
      tanPitch == TanPitch(pitch)
      H_ridge == ridgeHeight(width, pitch)
      \* vertical levels
      yPurlinCenter == Add(PILLAR_HEIGHT, Half(PURLIN_SIZE))
      yBasePurlinTop == Add(PILLAR_HEIGHT, PURLIN_SIZE)
      yRidgeTop == yRidgePurlinTop(width, pitch)
      yRidgePurlinCenter == Sub(yRidgeTop, Half(RIDGE_SIZE))
      yRafterAtBase == Add(yBasePurlinTop, rafterYOffset(cosPitch))
      yRafterAtRidge == Add(yRafterAtBase, H_ridge)
      yEave == Sub(yRafterAtBase, Mul(eavesOverhang, tanPitch))
      \* longitudinal extents
      xMin == Neg(Add(Half(length), gableOverhang))
      xMax == Add(Half(length), gableOverhang)
      zPurlin == Sub(Half(width), Half(PURLIN_SIZE))
      basePurlins == << makePurlin(xMin, xMax, yPurlinCenter, Neg(zPurlin), PURLIN_SIZE),
                        makePurlin(xMin, xMax, yPurlinCenter, zPurlin, PURLIN_SIZE) >>
      ridgePurlin == makePurlin(xMin, xMax, yRidgePurlinCenter, Zero, RIDGE_SIZE)
      \* pillars
      nPillars == pillarCount(length)
      pillarXPositions == buildPillarXPositions(length, nPillars)
      yRidgePurlinBottom == Sub(yRidgePurlinCenter, Half(RIDGE_SIZE))
      pillars == buildPillars(width, pillarXPositions, yRidgePurlinBottom)
      \* tie beams
      ties == tieBeams(pillarXPositions, yPurlinCenter, zPurlin)
      \* rafter layout
      purlinLength == Add(length, Mul(Two, gableOverhang))
      rafterSpanCC == Sub(purlinLength, RAFTER_WIDTH)
      nBays == Ceil(Div(rafterSpanCC, MAX_RAFTER_SPACING))
      nRafters == nBays[1] + 1
      xSpacing == Div(rafterSpanCC, nBays)
      xFirst == Add(xMin, Half(RAFTER_WIDTH))
      RafterX(i) == Add(xFirst, Mul(R(i, 1), xSpacing))
      \* bird mouths
      bmBase == birdMouthAtBasePurlin(pitch)
      bmRidge == birdMouthAtRidgePurlin(pitch)
      dBase == Div(eavesOverhang, cosPitch)
      dRidge == Div(Add(eavesOverhang, Half(width)), cosPitch)
      rLength == rafterLength(width, pitch, eavesOverhang)
      zEave == Add(Half(width), eavesOverhang)
      leftRafters  == [k \in 1..nRafters |->
                         Rafter(RafterX(k - 1), yEave, yRafterAtRidge, Neg(zEave),
                                bmBase, bmRidge, dBase, dRidge, rLength)]
      rightRafters == [k \in 1..nRafters |->
                         Rafter(RafterX(k - 1), yEave, yRafterAtRidge, zEave,
                                bmBase, bmRidge, dBase, dRidge, rLength)]
      \* ridge ties
      xOffset == Add(Half(RAFTER_WIDTH), Half(RIDGE_TIE_WIDTH))
      tieAtZero == RidgeTie(Zero, yRidgeTop, yRafterAtRidge, cosPitch, tanPitch)
      Tie(x) == [tieAtZero EXCEPT !.x = x]
      TiesAt(i) ==
        IF i = 0 THEN << Tie(Add(RafterX(i), xOffset)) >>
        ELSE IF i = nRafters - 1 THEN << Tie(Sub(RafterX(i), xOffset)) >>
        ELSE << Tie(Sub(RafterX(i), xOffset)), Tie(Add(RafterX(i), xOffset)) >>
      ridgeTies == ConcatAll([k \in 1..nRafters |-> TiesAt(k - 1)])
      kneeBraces == buildCornerKneeBraces(pillarXPositions, width)
  IN  [params |-> p,
       ridgeHeight |-> H_ridge,
       pillarHeight |-> PILLAR_HEIGHT,
       pillars |-> pillars,
       basePurlins |-> basePurlins,
       ridgePurlin |-> ridgePurlin,
       tieBeams |-> ties,
       ridgeTies |-> ridgeTies,
       rafters |-> leftRafters \o rightRafters,
       rafterSpacing |-> xSpacing,
       kneeBraces |-> kneeBraces]

\* buildStructure has no validation and no throw statement: it returns for
\* every parameter set.
buildStructureThrows(p) == FALSE

----------------------------------------------------------------------------
(* Derived metrics.                                                        *)

\* Variant: every pillar counted with the side pillar height.
pillarVol_uniformHeight(pillars) ==
  Mul(R(Len(pillars), 1), Mul(Mul(PILLAR_SIZE, PILLAR_SIZE), PILLAR_HEIGHT))

\* Pillar volume: each pillar with its own height.
pillarVol(pillars) ==
  SumSeq([i \in 1..Len(pillars) |->
            Mul(Mul(PILLAR_SIZE, PILLAR_SIZE), pillars[i].height)])

computeMetrics(m) ==
  LET purlinLength == AbsR(Sub(m.basePurlins[1].end.x, m.basePurlins[1].start.x))
      tieBeamLength == AbsR(Sub(m.tieBeams[1].end.z, m.tieBeams[1].start.z))
      rafterLen == m.rafters[1].length
      N(seq) == R(Len(seq), 1)
      Four == R(4, 1)
      \* volume
      basePurVol == Mul(Mul(Mul(Two, PURLIN_SIZE), PURLIN_SIZE), purlinLength)
      ridgePurVol == Mul(Mul(RIDGE_SIZE, RIDGE_SIZE), purlinLength)
      tieBeamVol == Mul(Mul(Mul(N(m.tieBeams), PURLIN_SIZE), PURLIN_SIZE), tieBeamLength)
      rafterVol == Mul(Mul(Mul(N(m.rafters), RAFTER_WIDTH), RAFTER_DEPTH), rafterLen)
      ridgeTieVol ==
        IF Len(m.ridgeTies) > 0
        THEN Mul(Mul(Mul(N(m.ridgeTies),
                         Add(m.ridgeTies[1].zHalfTop, m.ridgeTies[1].zHalfBottom)),
                     RIDGE_TIE_DEPTH), RIDGE_TIE_WIDTH)
        ELSE Zero
      kneeBraceVol == Mul(Mul(Mul(N(m.kneeBraces), KNEE_BRACE_SIZE), KNEE_BRACE_SIZE),
                          KNEE_BRACE_LENGTH)
      timberVolume ==
        Add(Add(Add(Add(Add(Add(pillarVol(m.pillars), basePurVol), ridgePurVol),
                        tieBeamVol), rafterVol), ridgeTieVol), kneeBraceVol)
      \* surface
      pillarSurf == SumSeq([i \in 1..Len(m.pillars) |->
                              Mul(m.pillars[i].height, Mul(Four, PILLAR_SIZE))])
      basePurSurf == Mul(Mul(Mul(Two, purlinLength), Two), Add(PURLIN_SIZE, PURLIN_SIZE))
      ridgePurSurf == Mul(Mul(purlinLength, Two), Add(RIDGE_SIZE, RIDGE_SIZE))
      tieBeamSurf == Mul(Mul(Mul(N(m.tieBeams), tieBeamLength), Two),
                         Add(PURLIN_SIZE, PURLIN_SIZE))
      rafterSurf == Mul(Mul(N(m.rafters), rafterLen),
                        Add(Mul(Two, RAFTER_WIDTH), Mul(Two, RAFTER_DEPTH)))
      cosPitch == CosPitch(m.params.pitch)
      ridgeTieSurf ==
        IF Len(m.ridgeTies) > 0
        THEN Mul(Mul(N(m.ridgeTies), RIDGE_TIE_WIDTH),
                 Add(Add(Mul(Two, m.ridgeTies[1].zHalfTop),
                         Mul(Two, m.ridgeTies[1].zHalfBottom)),
                     Div(Mul(Two, RIDGE_TIE_DEPTH), cosPitch)))
        ELSE Zero
      kneeBraceSurf == Mul(Mul(N(m.kneeBraces), KNEE_BRACE_LENGTH),
                           Mul(Four, KNEE_BRACE_SIZE))
      timberSurface ==
        Add(Add(Add(Add(Add(Add(pillarSurf, basePurSurf), ridgePurSurf),
                        tieBeamSurf), rafterSurf), ridgeTieSurf), kneeBraceSurf)
      roofSurface == Mul(Mul(Two, rafterLen), purlinLength)
  IN  [timberVolume |-> timberVolume,
       timberSurface |-> timberSurface,
       roofSurface |-> roofSurface]

----------------------------------------------------------------------------
(* Roofing layers.                                                         *)

ROOF_BATTEN_DISTANCE == R(2, 10)
FLASHING_DEVELOPED_WIDTH ==
  [dripEdge |-> R(125, 1000), eavesFlashing |-> R(250, 1000),
   ridgeFlashing |-> R(540, 1000), gableFlashing |-> R(312, 1000)]
FLASHING_LENGTH == R(2, 1)
FLASHING_OVERLAP == R(1, 10)

\* structure.totalLength: the full longitudinal span, gable overhangs included
totalLength(structure) ==
  Add(structure.params.length, Mul(Two, structure.params.gableOverhang))

\* Variant: one counter batten per rafter pair.
counterBattens_perPair(structure, opts) ==
  IF opts.membrane
  THEN [i \in 1..(Len(structure.rafters) \div 2) |->
          [length |-> structure.rafters[i].length]]
  ELSE << >>

\* Variant: counter battens laid only under a roofing.
counterBattens_underRoofingOnly(structure, opts) ==
  IF opts.membrane /\ opts.roofing
  THEN [i \in 1..Len(structure.rafters) |-> [length |-> structure.rafters[i].length]]
  ELSE << >>

counterBattens(structure, opts) ==
  IF opts.membrane
  THEN [i \in 1..Len(structure.rafters) |-> [length |-> structure.rafters[i].length]]
  ELSE << >>

\* Variant: the ridge row left out.
roofBattens_noRidgeRow(structure, opts) ==
  IF opts.roofing
  THEN LET rafterLen == structure.rafters[1].length
           rowsPerSlope == Ceil(Div(rafterLen, ROOF_BATTEN_DISTANCE))[1] + 1
           totalRows == rowsPerSlope * 2
           battenLength == totalLength(structure)
       IN  [i \in 1..totalRows |-> [length |-> battenLength]]
  ELSE << >>

roofBattens(structure, opts) ==
  IF opts.roofing
  THEN LET rafterLen == structure.rafters[1].length
           rowsPerSlope == Ceil(Div(rafterLen, ROOF_BATTEN_DISTANCE))[1] + 1 + 1
           totalRows == rowsPerSlope * 2
           battenLength == totalLength(structure)
       IN  [i \in 1..totalRows |-> [length |-> battenLength]]
  ELSE << >>

group(count, devWidth) ==
  [count |-> count, surface |-> Mul(Mul(count, FLASHING_LENGTH), devWidth)]

\* Variant: the overlap between pieces ignored.
flashings_noOverlap(structure, opts) ==
  IF opts.roofing
  THEN LET total == totalLength(structure)
           effectiveLen == FLASHING_LENGTH
           eavesCount == Ceil(Div(Mul(total, Two), effectiveLen))
           ridgeCount == Ceil(Div(total, effectiveLen))
           rafterLen == structure.rafters[1].length
           gableCount == Ceil(Div(Mul(rafterLen, R(4, 1)), effectiveLen))
           dripEdge == group(eavesCount, FLASHING_DEVELOPED_WIDTH.dripEdge)
           eavesFlashing == group(eavesCount, FLASHING_DEVELOPED_WIDTH.eavesFlashing)
           ridgeFlashing == group(ridgeCount, FLASHING_DEVELOPED_WIDTH.ridgeFlashing)
           gableFlashing == group(gableCount, FLASHING_DEVELOPED_WIDTH.gableFlashing)
       IN  [dripEdge |-> dripEdge, eavesFlashing |-> eavesFlashing,
            ridgeFlashing |-> ridgeFlashing, gableFlashing |-> gableFlashing,
            totalSurface |-> Add(Add(Add(dripEdge.surface, eavesFlashing.surface),
                                     ridgeFlashing.surface), gableFlashing.surface)]
  ELSE Null

flashings(structure, opts) ==
  IF opts.roofing
  THEN LET total == totalLength(structure)
           effectiveLen == Sub(FLASHING_LENGTH, FLASHING_OVERLAP)
           eavesCount == Ceil(Div(Mul(total, Two), effectiveLen))
           ridgeCount == Ceil(Div(total, effectiveLen))
           rafterLen == structure.rafters[1].length
           gableCount == Ceil(Div(Mul(rafterLen, R(4, 1)), effectiveLen))
           dripEdge == group(eavesCount, FLASHING_DEVELOPED_WIDTH.dripEdge)
           eavesFlashing == group(eavesCount, FLASHING_DEVELOPED_WIDTH.eavesFlashing)
           ridgeFlashing == group(ridgeCount, FLASHING_DEVELOPED_WIDTH.ridgeFlashing)
           gableFlashing == group(gableCount, FLASHING_DEVELOPED_WIDTH.gableFlashing)
       IN  [dripEdge |-> dripEdge, eavesFlashing |-> eavesFlashing,
            ridgeFlashing |-> ridgeFlashing, gableFlashing |-> gableFlashing,
            totalSurface |-> Add(Add(Add(dripEdge.surface, eavesFlashing.surface),
                                     ridgeFlashing.surface), gableFlashing.surface)]
  ELSE Null

\* The object returned has the three properties below and no other.
buildRoofing(structure, opts) ==
  [counterBattens |-> counterBattens(structure, opts),
   roofBattens |-> roofBattens(structure, opts),
   flashings |-> flashings(structure, opts)]

counterBattenTotalLength(r) ==
  SumSeq([i \in 1..Len(r.counterBattens) |-> r.counterBattens[i].length])

roofBattenTotalLength(r) ==
  SumSeq([i \in 1..Len(r.roofBattens) |-> r.roofBattens[i].length])

\* roofing.flashings?.totalSurface ?? 0
flashingTotalSurface(r) ==
  IF r.flashings = Null THEN Zero ELSE r.flashings.totalSurface

\* roofing.lamberia
lamberiaOf(r) == IF "lamberia" \in DOMAIN r THEN r.lamberia ELSE Undefined

----------------------------------------------------------------------------
(* The bounded input space.                                                *)

MaxWidth == 4
MaxLengthSteps == 2
MaxEavesSteps == 1
MaxGableSteps == 1

\* width 3.0, length 3.3, pitch 25 (the 36-77-85 triangle is 25.06 degrees),
\* overhangs 0.35
DEFAULTS ==
  [width |-> R(3, 1), length |-> R(33, 10),
   pitch |-> [opp |-> 36, adj |-> 77, hyp |-> 85],
   eavesOverhang |-> R(35, 100), gableOverhang |-> R(35, 100)]

\* 0, 0.5 m and 3.8 m (inner span exactly MAX_UNSUPPORTED_SPAN), then whole
\* metres from 3 m
Widths == {R(0, 1), R(1, 2), R(19, 5)} \cup {R(w, 1) : w \in 3..MaxWidth}

\* 0 and 0.05 m, then steps of 5 m
Lengths == {R(0, 1), R(1, 20)} \cup {R(5 * k, 1) : k \in 1..MaxLengthSteps}

\* 25.06 and 36.87 degrees; 0 degrees; 143.13 degrees
Pitches == { [opp |-> 36, adj |-> 77, hyp |-> 85],
             [opp |-> 3,  adj |-> 4,  hyp |-> 5],
             [opp |-> 0,  adj |-> 1,  hyp |-> 1],
             [opp |-> 3,  adj |-> -4, hyp |-> 5] }

\* steps of 0.5 m from -0.5 m
EavesOverhangs == {R(k, 2) : k \in -1..MaxEavesSteps}

\* steps of 0.3 m from -0.3 m
GableOverhangs == {R(3 * k, 10) : k \in -1..MaxGableSteps}

Fields == {"width", "length", "pitch", "eavesOverhang", "gableOverhang"}

ValuesOf(f) ==
  CASE f = "width" -> Widths
    [] f = "length" -> Lengths
    [] f = "pitch" -> Pitches
    [] f = "eavesOverhang" -> EavesOverhangs
    [] f = "gableOverhang" -> GableOverhangs

\* The valid input domain: width, length > 0; 0 < pitch < 90; overhangs >= 0
Valid(p) ==
  /\ Gt(p.width, Zero)
  /\ Gt(p.length, Zero)
  /\ p.pitch.opp > 0 /\ p.pitch.adj > 0
  /\ Le(Zero, p.eavesOverhang)
  /\ Le(Zero, p.gableOverhang)

----------------------------------------------------------------------------
(* Renderer: the scene handle and its model group.                         *)
(*                                                                         *)
(* A group is recorded by the parameters of the model it was built from,   *)
(* the number of meshes it holds and the number of geometries created for  *)
(* it that have not been disposed.  The scene is the sequence of groups    *)
(* added to it, the position of the one modelGroup refers to, and the      *)
(* number of undisposed geometries of groups nothing refers to any more.   *)

\* new THREE.Group()
EmptyGroup == [builtFrom |-> Null, meshes |-> 0, liveGeometries |-> 0]

\* buildRoofMeshes(model), no options: a new group with one mesh, each on a
\* geometry of its own and a shared material, per pillar, base purlin, tie
\* beam, rafter, ridge tie and knee brace, and one for the ridge purlin.
buildRoofMeshes(m) ==
  LET n == Len(m.pillars) + Len(m.basePurlins) + Len(m.tieBeams)
             + Len(m.rafters) + Len(m.ridgeTies) + Len(m.kneeBraces) + 1
  IN  [builtFrom |-> m.params, meshes |-> n, liveGeometries |-> n]

\* disposeGroup: dispose the geometry of every mesh of the group, leave the
\* materials, then clear the group.
disposeGroup(g) ==
  [g EXCEPT !.liveGeometries = @ - g.meshes, !.meshes = 0]

\* createScene: an empty model group, added to the scene.
createScene ==
  [children |-> <<EmptyGroup>>, modelGroup |-> 1, orphanGeometries |-> 0]

\* scene.remove of the k-th group
RemoveAt(groups, k) ==
  [i \in 1..(Len(groups) - 1) |-> IF i < k THEN groups[i] ELSE groups[i + 1]]

\* Variant: the old group is left in the scene.
updateModel_withoutRemove(s, m) ==
  LET k        == s.modelGroup
      disposed == [s.children EXCEPT ![k] = disposeGroup(s.children[k])]
      added    == Append(disposed, buildRoofMeshes(m))
  IN  [children |-> added, modelGroup |-> Len(added),
       orphanGeometries |-> s.orphanGeometries]

\* updateModel: dispose the current group, remove it from the scene, build
\* the group of the new model, make it the current one and add it.  The
\* old group is referred to by nothing afterwards.
updateModel(s, m) ==
  LET k        == s.modelGroup
      disposed == [s.children EXCEPT ![k] = disposeGroup(s.children[k])]
      removed  == RemoveAt(disposed, k)
      added    == Append(removed, buildRoofMeshes(m))
  IN  [children |-> added, modelGroup |-> Len(added),
       orphanGeometries |-> s.orphanGeometries + disposed[k].liveGeometries]

----------------------------------------------------------------------------
(* Pricing panel.                                                          *)
(*                                                                         *)
(* A price table is recorded by the ids it has an entry for; the panel by  *)
(* what it shows: the loading text, the 'prices unavailable' text, or a    *)
(* total, recorded by the ids of the entries that are summed into it.      *)

PRICE_ITEMS ==
  {"fureszaru", "gyalulas", "gyartas", "lazur", "feluletkezeles", "szereles"}

\* the items of the three option checkboxes
ROOFING_OPTIONS ==
  [lamberia |-> {"lamberia", "lamberiazas"},
   membrane |-> {"folia", "foliazas", "ellenlec"},
   roofing  |-> {"lemez", "tetolec", "lecezes", "lemezeles", "badog", "badogozas"}]

Checkboxes == {"lamberia", "membrane", "roofing"}

\* The tables fetchPrices can return: a sheet with the header row only, one
\* with the timber items, one with every item.
PriceTables ==
  { [ids |-> {}],
    [ids |-> PRICE_ITEMS],
    [ids |-> PRICE_ITEMS \cup UNION {ROOFING_OPTIONS[c] : c \in Checkboxes}] }

Loading == [kind |-> "loading"]

Unavailable == [kind |-> "unavailable"]

\* update() reads m.totalFootprint.toFixed(1) of the metrics m it has
\* just computed, for the info badge: a TypeError when m has no such
\* property, and the rest of update() does not run.
updateThrows(m) == "totalFootprint" \notin DOMAIN m

\* The pricing panel at the end of update(): with a table, the total of the
\* base items and of the items of the checked options that have an entry;
\* without one, what the panel showed before.
pricingPanel(table, chk, shown) ==
  IF table # Null
  THEN [kind |-> "total",
        items |-> (PRICE_ITEMS \cap table.ids)
                    \cup UNION {ROOFING_OPTIONS[c] \cap table.ids : c \in chk}]
  ELSE shown

----------------------------------------------------------------------------
(* The program.                                                            *)

\* update(): read the five inputs, rebuild the model from scratch and show
\* it, then the metrics and the roofing layers, always with membrane and
\* roofing enabled (no lamberia property is passed), then the info badge
\* and the pricing panel, from the price table and the checkboxes as they
\* are when update() runs.  onThrow is what the panel shows if update()
\* throws: what it showed before when update() is an event handler, the
\* text of the catch handler when update() runs in the then handler.
update(p, onThrow) ==
  /\ params' = p
  /\ thrown' = buildStructureThrows(p)
  /\ model' = buildStructure(p)
  /\ scene' = updateModel(scene, model')
  /\ matDisposed' = matDisposed
  /\ metrics' = computeMetrics(model')
  /\ options' = [membrane |-> TRUE, roofing |-> TRUE, lamberia |-> FALSE]
  /\ roofing' = buildRoofing(model', options')
  /\ pricing' = IF updateThrows(metrics')
                THEN onThrow
                ELSE pricingPanel(prices', checked', pricing)

\* The scene is created, the download of the prices is started and the
\* panel shows the loading text; the inputs start at DEFAULTS, the
\* checkboxes unchecked, and update() runs once.
Init ==
  /\ params = DEFAULTS
  /\ thrown = buildStructureThrows(params)
  /\ model = buildStructure(params)
  /\ scene = updateModel(createScene, model)
  /\ matDisposed = FALSE
  /\ metrics = computeMetrics(model)
  /\ options = [membrane |-> TRUE, roofing |-> TRUE, lamberia |-> FALSE]
  /\ roofing = buildRoofing(model, options)
  /\ prices = Null
  /\ fetchState = "pending"
  /\ checked = {}
  /\ pricing = Loading

\* An 'input' event of one slider.
SliderInput ==
  \E f \in Fields : \E v \in ValuesOf(f) :
    /\ v # params[f]
    /\ UNCHANGED <<prices, fetchState, checked>>
    /\ update([params EXCEPT ![f] = v], pricing)

Next == SliderInput

Spec == Init /\ [][Next]_vars

\* The option sets a caller of buildRoofing passes: every combination of
\* membrane and roofing, and every layer enabled, the cladding included.
RoofingOptions ==
  [membrane : BOOLEAN, roofing : BOOLEAN, lamberia : {FALSE}]
    \cup {[membrane |-> TRUE, roofing |-> TRUE, lamberia |-> TRUE]}

\* A direct call buildRoofing(structure, options) on the current structure.
RoofingCall ==
  \E o \in RoofingOptions :
    /\ o # options
    /\ options' = o
    /\ roofing' = buildRoofing(model, o)
    /\ UNCHANGED <<params, model, thrown, metrics>>
    /\ UNCHANGED <<scene, matDisposed, prices, fetchState, checked, pricing>>

\* The sliders moved between direct calls: every one but the width, which
\* buildRoofing sees only through the rafter length, as it does the pitch
\* and the eaves overhang.
RoofingFields == Fields \ {"width"}

\* An 'input' event of one of these sliders.
RoofingSliderInput ==
  \E f \in RoofingFields : \E v \in ValuesOf(f) :
    /\ v # params[f]
    /\ UNCHANGED <<prices, fetchState, checked>>
    /\ update([params EXCEPT ![f] = v], pricing)

RoofingNext == RoofingSliderInput \/ RoofingCall

RoofingSpec == Init /\ [][RoofingNext]_vars

\* The sliders moved while the prices are on their way: the two that set
\* the length of the roof.
PricingFields == {"length", "gableOverhang"}

\* An 'input' event of one of these sliders.
PricingSliderInput ==
  \E f \in PricingFields : \E v \in ValuesOf(f) :
    /\ v # params[f]
    /\ UNCHANGED <<prices, fetchState, checked>>
    /\ update([params EXCEPT ![f] = v], pricing)

\* A 'change' event of one checkbox: its state flips and update() runs.
CheckboxChange ==
  \E c \in Checkboxes :
    /\ checked' = IF c \in checked THEN checked \ {c} ELSE checked \cup {c}
    /\ UNCHANGED <<prices, fetchState>>
    /\ update(params, pricing)

\* fetchPrices: await fetch(CSV_URL) yields a response with res.ok and
\* fetchPrices goes on to await res.text().
ResponseArrives ==
  /\ fetchState = "pending"
  /\ fetchState' = "reading"
  /\ UNCHANGED <<params, model, thrown, metrics, options, roofing,
                 scene, matDisposed, prices, checked, pricing>>

\* fetchPrices rejects: fetch fails or the response is not ok, or reading
\* the body fails.  The then handler is skipped and the catch handler
\* writes the 'prices unavailable' text.
FetchRejects ==
  /\ fetchState \in {"pending", "reading"}
  /\ fetchState' = "rejected"
  /\ pricing' = Unavailable
  /\ UNCHANGED <<params, model, thrown, metrics, options, roofing,
                 scene, matDisposed, prices, checked>>

\* fetchPrices resolves with the parsed table; the then handler stores it
\* and runs update().  The catch handler is chained after the then handler:
\* it also runs when update() throws there.
FetchResolves ==
  \E table \in PriceTables :
    /\ fetchState = "reading"
    /\ fetchState' = "resolved"
    /\ prices' = table
    /\ checked' = checked
    /\ update(params, Unavailable)

PricingNext ==
  \/ PricingSliderInput
  \/ CheckboxChange
  \/ ResponseArrives
  \/ FetchRejects
  \/ FetchResolves

PricingSpec == Init /\ [][PricingNext]_vars

----------------------------------------------------------------------------
(* Properties.                                                             *)

\* a === b on numbers
Eq(a, b) == IsFinite(a) /\ IsFinite(b) /\ a = b

RaftersPerSlope == Len(model.rafters) \div 2

SidePillars == {i \in 1..Len(model.pillars) : model.pillars[i].base.z # Zero}

CentrePillars == {i \in 1..Len(model.pillars) : model.pillars[i].base.z = Zero}

\* x of each pillar row, read off the pillars of the first base purlin
PillarRowXs ==
  LET zLeft == Neg(Sub(Half(params.width), Half(PILLAR_SIZE)))
      IsLeft(q) == q.base.z = zLeft
      left == SelectSeq(model.pillars, IsLeft)
  IN  [k \in 1..Len(left) |-> left[k].base.x]

NeedsCentrePillar == Gt(Sub(params.width, Mul(Two, PILLAR_SIZE)), MAX_UNSUPPORTED_SPAN)

\* C1: for every valid input and every rafter, the centreline height at the
\* base purlin minus RAFTER_DEPTH/(2 cos pitch) - BIRD_MOUTH_PLUMB_HEIGHT is
\* the base purlin top, and the centreline height at z = RIDGE_SIZE/2 minus
\* the same offset is the ridge purlin top.
C1_BearingInvariant ==
  Valid(params) =>
    LET cosP == CosPitch(params.pitch)
        tanP == TanPitch(params.pitch)
        offset == Sub(Div(RAFTER_DEPTH, Mul(Two, cosP)), BIRD_MOUTH_PLUMB_HEIGHT)
    IN  \A i \in 1..Len(model.rafters) :
          LET r == model.rafters[i]
          IN  /\ Eq(Sub(Add(r.eaveEnd.y, Mul(params.eavesOverhang, tanP)), offset),
                    Add(PILLAR_HEIGHT, PURLIN_SIZE))
              /\ Eq(Sub(Sub(r.ridgeEnd.y, Mul(Half(RIDGE_SIZE), tanP)), offset),
                    Add(model.ridgePurlin.start.y, Half(RIDGE_SIZE)))

C1_Witness ==
  /\ Valid(params)
  /\ params.pitch = [opp |-> 3, adj |-> 4, hyp |-> 5]
  /\ Gt(params.eavesOverhang, Zero)
  /\ model.params = params
  /\ Len(model.rafters) >= 4

\* C2: for every length, the bay span reconstructed from the pillar count,
\* (length - 2 PILLAR_SIZE) / (rows - 1), never exceeds MAX_UNSUPPORTED_SPAN.
C2_BaySpanWithinLimit ==
  Gt(params.length, Zero) =>
    LET rows == Cardinality(SidePillars) \div 2
        innerSpan == Sub(params.length, Mul(Two, PILLAR_SIZE))
    IN  Le(Div(innerSpan, R(rows - 1, 1)), MAX_UNSUPPORTED_SPAN)

\* C3: for every length with a positive inner span, pillarCount(length) and
\* the number of side pillars of the model are
\* 2 * (ceil((length - 2 PILLAR_SIZE) / MAX_UNSUPPORTED_SPAN) + 1).
C3_PillarCountFormula ==
  LET innerSpan == Sub(params.length, Mul(Two, PILLAR_SIZE))
      bays == Ceil(Div(innerSpan, MAX_UNSUPPORTED_SPAN))
  IN  Gt(innerSpan, Zero) =>
        /\ pillarCount(params.length) = 2 * (bays[1] + 1)
        /\ Cardinality(SidePillars) = 2 * (bays[1] + 1)

\* C4: for every valid input each slope has bays + 1 rafters in
\* bays = ceil((length + 2 gableOverhang - RAFTER_WIDTH) / 0.9) equal bays:
\* every gap is rafterSpacing, rafterSpacing is at most 0.9 m, and the first
\* and last rafter centres are at -/+(length/2 + gableOverhang - RAFTER_WIDTH/2).
C4_RafterLayout ==
  Valid(params) =>
    LET n == RaftersPerSlope
        span == Sub(Add(params.length, Mul(Two, params.gableOverhang)), RAFTER_WIDTH)
        bays == Ceil(Div(span, R(9, 10)))
        xEnd == Sub(Add(Half(params.length), params.gableOverhang), Half(RAFTER_WIDTH))
    IN  /\ n = bays[1] + 1
        /\ \A i \in 1..(n - 1) :
             Eq(Sub(model.rafters[i + 1].eaveEnd.x, model.rafters[i].eaveEnd.x),
                model.rafterSpacing)
        /\ Le(model.rafterSpacing, R(9, 10))
        /\ n >= 1 => /\ Eq(model.rafters[1].eaveEnd.x, Neg(xEnd))
                     /\ Eq(model.rafters[n].eaveEnd.x, xEnd)

\* C5: for every valid input the ridge purlin top is at PILLAR_HEIGHT +
\* PURLIN_SIZE + ridgeHeight(width - RIDGE_SIZE, pitch), its centre
\* RIDGE_SIZE/2 lower, and the top is strictly below every rafter's ridge
\* end and below the rafter top surface at the ridge.
C5_RidgePurlinBelowRafters ==
  Valid(params) =>
    LET top == Add(model.ridgePurlin.start.y, Half(RIDGE_SIZE))
        cosP == CosPitch(params.pitch)
    IN  /\ Eq(top, Add(Add(PILLAR_HEIGHT, PURLIN_SIZE),
                       ridgeHeight(Sub(params.width, RIDGE_SIZE), params.pitch)))
        /\ Eq(model.ridgePurlin.end.y, model.ridgePurlin.start.y)
        /\ \A i \in 1..Len(model.rafters) :
             LET r == model.rafters[i]
             IN  /\ Lt(top, r.ridgeEnd.y)
                 /\ Lt(top, Add(r.ridgeEnd.y, Div(RAFTER_DEPTH, Mul(Two, cosP))))

C5_Witness ==
  /\ Valid(params)
  /\ NeedsCentrePillar
  /\ Len(model.rafters) >= 4

\* C6: every input with width or length <= 0, pitch <= 0 or >= 90, or a
\* negative overhang is rejected with a validation error.
C6_RejectsInvalidInput == ~Valid(params) => thrown

\* C7: for every valid input the model has at least 4 pillars, at least 2
\* rafters per slope, and finite rafterSpacing and pillar and rafter x.
C7_TotalOnValidDomain ==
  Valid(params) =>
    /\ Len(model.pillars) >= 4
    /\ RaftersPerSlope >= 2
    /\ IsFinite(model.rafterSpacing)
    /\ \A i \in 1..Len(model.pillars) : IsFinite(model.pillars[i].base.x)
    /\ \A i \in 1..Len(model.rafters) : IsFinite(model.rafters[i].eaveEnd.x)

C9_CentrePillarsAtCornerRows ==
  LET under == Sub(model.ridgePurlin.start.y, Half(RIDGE_SIZE))
      rowXs == PillarRowXs
  IN  /\ (CentrePillars # {}) <=> NeedsCentrePillar
      /\ NeedsCentrePillar =>
           /\ Cardinality(CentrePillars) = 2
           /\ \E i, j \in CentrePillars :
                /\ model.pillars[i].base.x = rowXs[1]
                /\ model.pillars[j].base.x = rowXs[Len(rowXs)]
                /\ i # j
      /\ \A i \in CentrePillars : Eq(model.pillars[i].height, under)
      /\ \A i \in SidePillars :
           /\ model.pillars[i].base.y = Zero
           /\ model.pillars[i].height = PILLAR_HEIGHT

C9_Witness ==
  /\ NeedsCentrePillar
  /\ Len(PillarRowXs) = 3
  /\ Cardinality(CentrePillars) = 2

C11_RafterLength ==
  LET expected == Div(Add(Half(params.width), params.eavesOverhang),
                      CosPitch(params.pitch))
  IN  /\ \A i \in 1..Len(model.rafters) :
           /\ model.rafters[i].length = model.rafters[1].length
           /\ Eq(model.rafters[i].length, expected)
      /\ Valid(params) =>
           \A i \in 1..Len(model.rafters) :
             LET r == model.rafters[i]
                 dy == Sub(r.ridgeEnd.y, r.eaveEnd.y)
                 dz == Sub(r.ridgeEnd.z, r.eaveEnd.z)
             IN  /\ Le(Zero, r.length)
                 /\ Eq(Mul(r.length, r.length), Add(Mul(dy, dy), Mul(dz, dz)))

C11_Witness ==
  /\ Valid(params)
  /\ params.width = R(4, 1)
  /\ params.pitch = [opp |-> 3, adj |-> 4, hyp |-> 5]
  /\ params.eavesOverhang = R(1, 2)
  /\ model.params = params
  /\ model.rafters[1].length = R(25, 8)

\* pitches between 0 and 90 degrees to compare the current one with
PitchSamples ==
  { [opp |-> 5,  adj |-> 12, hyp |-> 13],
    [opp |-> 36, adj |-> 77, hyp |-> 85],
    [opp |-> 8,  adj |-> 15, hyp |-> 17],
    [opp |-> 3,  adj |-> 4,  hyp |-> 5],
    [opp |-> 20, adj |-> 21, hyp |-> 29],
    [opp |-> 4,  adj |-> 3,  hyp |-> 5] }

ValidPitch(q) == q.opp > 0 /\ q.adj > 0

\* q is the steeper of two pitches between 0 and 90 degrees
Steeper(q, p) == Lt(CosPitch(q), CosPitch(p))

\* C12: on every rafter of every model birdMouthBase.plumbHeight is 0.03,
\* birdMouthRidge.seatDepth is 0.05 and birdMouthRidge.plumbHeight is 0.03;
\* for a pitch between 0 and 90 degrees birdMouthBase.seatDepth is
\* 0.03 / tan(pitch), smaller at every steeper pitch and larger at every
\* shallower one.
C12_BirdMouthConstants ==
  /\ \A i \in 1..Len(model.rafters) :
       /\ model.rafters[i].birdMouthBase.plumbHeight = R(3, 100)
       /\ model.rafters[i].birdMouthRidge.seatDepth = R(5, 100)
       /\ model.rafters[i].birdMouthRidge.plumbHeight = R(3, 100)
  /\ ValidPitch(params.pitch) =>
       \A i \in 1..Len(model.rafters) :
         LET seat == model.rafters[i].birdMouthBase.seatDepth
         IN  /\ Eq(seat, Div(R(3, 100), TanPitch(params.pitch)))
             /\ \A q \in PitchSamples :
                  /\ Steeper(q, params.pitch) =>
                       Lt(birdMouthAtBasePurlin(q).seatDepth, seat)
                  /\ Steeper(params.pitch, q) =>
                       Lt(seat, birdMouthAtBasePurlin(q).seatDepth)

C12_Witness ==
  /\ params.pitch = [opp |-> 3, adj |-> 4, hyp |-> 5]
  /\ Len(model.rafters) >= 4
  /\ model.rafters[1].birdMouthBase.seatDepth = R(4, 100)
  /\ \E q \in PitchSamples : Steeper(q, params.pitch)
  /\ \E q \in PitchSamples : Steeper(params.pitch, q)

RafterLengths == [i \in 1..Len(model.rafters) |-> model.rafters[i].length]

\* C13: with the membrane option on, buildRoofing returns one counter batten
\* per rafter, in rafter order and with that rafter's length, and
\* counterBattenTotalLength is the sum of the rafter lengths; with it off
\* there are no counter battens and counterBattenTotalLength is 0.
C13_CounterBattens ==
  /\ options.membrane =>
       /\ Len(roofing.counterBattens) = Len(model.rafters)
       /\ \A i \in 1..Len(model.rafters) :
            roofing.counterBattens[i].length = model.rafters[i].length
       /\ counterBattenTotalLength(roofing) = SumSeq(RafterLengths)
  /\ ~options.membrane =>
       /\ roofing.counterBattens = << >>
       /\ counterBattenTotalLength(roofing) = Zero

C13_Witness ==
  /\ options.membrane /\ ~options.roofing
  /\ params.length = R(5, 1)
  /\ Len(roofing.counterBattens) >= 6
  /\ Gt(counterBattenTotalLength(roofing), Zero)

C16_Lamberia ==
  Valid(params) =>
    LET l == lamberiaOf(roofing)
        span == Add(params.length, Mul(Two, params.gableOverhang))
    IN  IF options.lamberia
        THEN /\ l # Undefined
             /\ l # Null
             /\ l.planksPerSlope = Ceil(Div(model.rafters[1].length, R(112, 1000)))
             /\ l.plankLength = span
        ELSE l \in {Null, Undefined}

\* one slider moved up, the other four parameters as they were
LengthGrows ==
  /\ Lt(params.length, params'.length)
  /\ params' = [params EXCEPT !.length = params'.length]

WidthGrows ==
  /\ Lt(params.width, params'.width)
  /\ params' = [params EXCEPT !.width = params'.width]

\* C18: with the other parameters fixed, the numbers of pillars, tie beams
\* and knee braces of the model never decrease when length increases, and
\* never decrease when width increases.
C18_MonotonicCounts ==
  [][(LengthGrows \/ WidthGrows) =>
       /\ Len(model'.pillars) >= Len(model.pillars)
       /\ Len(model'.tieBeams) >= Len(model.tieBeams)
       /\ Len(model'.kneeBraces) >= Len(model.kneeBraces)]_vars

C18_Witness ==
  /\ Gt(params.length, DEFAULTS.length)
  /\ Gt(params.width, DEFAULTS.width)
  /\ Len(model.pillars) = 8
  /\ Len(model.tieBeams) = 3
  /\ Len(model.kneeBraces) = 12

\* C19: for every valid input timberVolume is the sum, member by member, of
\* cross-section area x length over pillars (each with its own height),
\* purlins, tie beams, rafters, ridge ties (trapezoid area x width) and knee
\* braces, so that ridge pillars count for more than side pillars, and
\* roofSurface is 2 x rafter length x (length + 2 gableOverhang).
C19_Metrics ==
  Valid(params) =>
    LET Sq(a) == Mul(a, a)
        PurlinVol(q) == Mul(Mul(q.width, q.height), AbsR(Sub(q.end.x, q.start.x)))
        pillars == SumSeq([i \in 1..Len(model.pillars) |->
                             Mul(Sq(PILLAR_SIZE), model.pillars[i].height)])
        purlins == Add(Add(PurlinVol(model.basePurlins[1]), PurlinVol(model.basePurlins[2])),
                       PurlinVol(model.ridgePurlin))
        ties == SumSeq([i \in 1..Len(model.tieBeams) |->
                          Mul(Sq(PURLIN_SIZE),
                              AbsR(Sub(model.tieBeams[i].end.z, model.tieBeams[i].start.z)))])
        rafters == SumSeq([i \in 1..Len(model.rafters) |->
                             Mul(Mul(RAFTER_WIDTH, RAFTER_DEPTH), model.rafters[i].length)])
        ridgeTies == SumSeq([i \in 1..Len(model.ridgeTies) |->
                               Mul(Mul(Add(model.ridgeTies[i].zHalfTop,
                                           model.ridgeTies[i].zHalfBottom),
                                       RIDGE_TIE_DEPTH), RIDGE_TIE_WIDTH)])
        braces == Mul(R(Len(model.kneeBraces), 1), Mul(Sq(KNEE_BRACE_SIZE), KNEE_BRACE_LENGTH))
        total == SumSeq(<<pillars, purlins, ties, rafters, ridgeTies, braces>>)
        span == Add(params.length, Mul(Two, params.gableOverhang))
    IN  /\ Eq(metrics.timberVolume, total)
        /\ Eq(metrics.roofSurface, Mul(Mul(Two, model.rafters[1].length), span))
        /\ CentrePillars # {} =>
             Gt(pillars, Mul(R(Len(model.pillars), 1), Mul(Sq(PILLAR_SIZE), PILLAR_HEIGHT)))

C19_Witness ==
  /\ Valid(params)
  /\ Cardinality(CentrePillars) = 2
  /\ Len(model.tieBeams) = 3
  /\ Gt(params.gableOverhang, Zero)
  /\ Gt(metrics.roofSurface, Zero)

\* the four corners: first and last pillar row, both sides
Corners ==
  LET rowXs == PillarRowXs
      zHalf == Sub(Half(params.width), Half(PILLAR_SIZE))
  IN  {<<x, z>> : x \in {rowXs[1], rowXs[Len(rowXs)]}, z \in {Neg(zHalf), zHalf}}

BracesAt(c) ==
  {i \in 1..Len(model.kneeBraces) :
     LET b == model.kneeBraces[i]
     IN  /\ (b.start.x = c[1] \/ b.end.x = c[1])
         /\ (b.start.z = c[2] \/ b.end.z = c[2])}

InteriorRows == Len(PillarRowXs) - 2

\* C21: a model without centre pillars has 12 + 10 x (number of interior
\* pillar rows) knee braces: three at each corner and five on each of the
\* two sides of every interior pillar row.
C21_InteriorRowBraces ==
  CentrePillars = {} =>
    Len(model.kneeBraces) = 12 + 10 * InteriorRows

\* braces with an end on the axis of centre pillar i or within one leg of it
\* along the ridge purlin or the crossing tie beam
RidgePillarBraces(i) ==
  LET leg == Mul(KNEE_BRACE_LENGTH, COS_45)
      px  == model.pillars[i].base.x
      Near(q) == /\ Le(AbsR(Sub(q.x, px)), leg)
                 /\ Le(AbsR(q.z), leg)
  IN  {k \in 1..Len(model.kneeBraces) :
         LET b == model.kneeBraces[k]
         IN  /\ Near(b.start) /\ Near(b.end)
             /\ (b.start.z = Zero \/ b.end.z = Zero)}

\* C22: when centre pillars exist (width - 2*PILLAR_SIZE over
\* MAX_UNSUPPORTED_SPAN), five knee braces are attached to each of them,
\* and the model has more knee braces than the model of the default width
\* with the same other parameters.
C22_RidgePillarBraces ==
  (NeedsCentrePillar /\ CentrePillars # {}) =>
    /\ \A i \in CentrePillars : Cardinality(RidgePillarBraces(i)) = 5
    /\ Len(model.kneeBraces) >
         Len(buildStructure([params EXCEPT !.width = DEFAULTS.width]).kneeBraces)

\* C23: for every valid input every knee brace is a 45 degree diagonal: its
\* displacement from start to end has exactly two non-zero components among
\* x, y, z, each of magnitude leg = KNEE_BRACE_LENGTH * cos 45, so that its
\* squared length is 2 leg^2 (1 m^2 up to the rounding of cos 45); a brace
\* with a vertical component rises from yJunction - leg to yJunction =
\* PILLAR_HEIGHT + PURLIN_SIZE/2, and a level brace has |dx| = |dz| = leg.
C23_BraceDiagonal ==
  Valid(params) =>
    LET leg       == Mul(KNEE_BRACE_LENGTH, COS_45)
        yJunction == Add(PILLAR_HEIGHT, Half(PURLIN_SIZE))
    IN  /\ Len(model.kneeBraces) > 0
        /\ Lt(AbsR(Sub(Mul(Two, Mul(leg, leg)), Mul(KNEE_BRACE_LENGTH, KNEE_BRACE_LENGTH))),
              R(1, 10000))
        /\ \A i \in 1..Len(model.kneeBraces) :
             LET b  == model.kneeBraces[i]
                 dx == Sub(b.end.x, b.start.x)
                 dy == Sub(b.end.y, b.start.y)
                 dz == Sub(b.end.z, b.start.z)
                 moved == {d \in {<<"x", dx>>, <<"y", dy>>, <<"z", dz>>} : d[2] # Zero}
             IN  /\ Cardinality(moved) = 2
                 /\ \A d \in moved : Eq(AbsR(d[2]), leg)
                 /\ Eq(Add(Mul(dx, dx), Add(Mul(dy, dy), Mul(dz, dz))),
                       Mul(Two, Mul(leg, leg)))
                 /\ dy # Zero =>
                      /\ Eq(b.start.y, Sub(yJunction, leg))
                      /\ Eq(b.end.y, yJunction)
                 /\ dy = Zero => (Eq(AbsR(dx), leg) /\ Eq(AbsR(dz), leg))

C23_Witness ==
  /\ Valid(params)
  /\ params.width = R(1, 2)
  /\ model.params = params
  /\ \E i \in 1..Len(model.kneeBraces) :
       /\ model.kneeBraces[i].start.y = model.kneeBraces[i].end.y
       /\ model.kneeBraces[i].start.x # model.kneeBraces[i].end.x
  /\ \E i \in 1..Len(model.kneeBraces) :
       Lt(model.kneeBraces[i].start.y, model.kneeBraces[i].end.y)

\* the corner pillar brace i springs from: the corner whose x and z both
\* occur among the brace's end coordinates
CornerOf(i) == CHOOSE c \in Corners : i \in BracesAt(c)

\* C24: for every valid input every knee brace points to the interior: an
\* end displaced from its pillar at (xP, zP) along x is displaced toward
\* -sign(xP), an end displaced along z toward -sign(zP), and no end of the
\* brace is farther from the footprint centre (in plan) than the pillar.
\* Every brace end has the pillar's x or the pillar's z, so the distances
\* compare as the magnitudes of the other coordinate do.
C24_BracesPointInward ==
  Valid(params) =>
    \A i \in 1..Len(model.kneeBraces) :
      LET c  == CornerOf(i)
          xP == c[1]
          zP == c[2]
          b  == model.kneeBraces[i]
          Inward(q) ==
            /\ q.x # xP => (IF Gt(xP, Zero) THEN Lt(q.x, xP) ELSE Gt(q.x, xP))
            /\ q.z # zP => (IF Gt(zP, Zero) THEN Lt(q.z, zP) ELSE Gt(q.z, zP))
            /\ Le(AbsR(q.x), AbsR(xP))
            /\ Le(AbsR(q.z), AbsR(zP))
      IN  Inward(b.start) /\ Inward(b.end)

\* C25: for a valid input with n rafters per slope the model has exactly 2n - 2 ridge ties:
\* one at the first gable rafter on its +x side, one at the last gable
\* rafter on its -x side, and at every interior rafter a pair at
\* x = rafter x -/+ (RAFTER_WIDTH/2 + RIDGE_TIE_WIDTH/2).
C25_RidgeTieCount ==
  LET n       == RaftersPerSlope
      xOffset == Add(Half(RAFTER_WIDTH), Half(RIDGE_TIE_WIDTH))
      X(i)    == model.rafters[i].eaveEnd.x
      ties    == model.ridgeTies
  IN  Valid(params) =>
        /\ Len(ties) = 2 * n - 2
        /\ n >= 2 =>
             /\ Eq(ties[1].x, Add(X(1), xOffset))
             /\ Eq(ties[2 * n - 2].x, Sub(X(n), xOffset))
             /\ \A i \in 2..(n - 1) :
                  /\ Eq(ties[2 * i - 2].x, Sub(X(i), xOffset))
                  /\ Eq(ties[2 * i - 1].x, Add(X(i), xOffset))

RoofingRecomputed == options' # options /\ params' = params

\* C27: for a fixed structure each roofing layer follows its own flag alone:
\* a call that changes the membrane flag and not the roofing flag leaves
\* roofBattens and flashings as they were, a call that changes the roofing
\* flag and not the membrane flag leaves counterBattens as they were, and
\* no call changes the structure it is given.
C27_LayersIndependent ==
  [][RoofingRecomputed =>
       /\ model' = model
       /\ options'.roofing = options.roofing =>
            /\ roofing'.roofBattens = roofing.roofBattens
            /\ roofing'.flashings = roofing.flashings
       /\ options'.membrane = options.membrane =>
            roofing'.counterBattens = roofing.counterBattens]_vars

\* counter battens are laid while the roofing is off: the membrane flag has
\* been switched independently of the roofing flag
C27_Witness ==
  /\ options.membrane /\ ~options.roofing
  /\ Len(roofing.counterBattens) > 0
  /\ roofing.roofBattens = << >>
  /\ roofing.flashings = Null
  /\ Len(model.rafters) > 0

\* q lies on a tie beam: on its axis, between its two ends
OnTieBeam(q) ==
  \E k \in 1..Len(model.tieBeams) :
    LET t == model.tieBeams[k]
    IN  /\ q.x = t.start.x /\ q.y = t.start.y
        /\ Le(t.start.z, q.z) /\ Le(q.z, t.end.z)

\* q lies on a base purlin: on its axis, between its two ends
OnBasePurlin(q) ==
  \E k \in 1..Len(model.basePurlins) :
    LET u == model.basePurlins[k]
    IN  /\ q.z = u.start.z /\ q.y = u.start.y
        /\ Le(u.start.x, q.x) /\ Le(q.x, u.end.x)

\* q lies on a pillar: on its axis, between its foot and its top
OnPillar(q) ==
  \E k \in 1..Len(model.pillars) :
    LET s == model.pillars[k]
    IN  /\ q.x = s.base.x /\ q.z = s.base.z
        /\ Le(s.base.y, q.y) /\ Le(q.y, Add(s.base.y, s.height))

\* C28: for every valid input both ends of every knee brace lie on a member:
\* on a tie beam with z within the tie beam's extent, -/+(width/2 -
\* PILLAR_SIZE/2), on a base purlin with x within the purlin's extent,
\* -/+(length/2 + gableOverhang), or on a pillar with y between 0 and the
\* pillar top.
C28_BraceEndsOnMembers ==
  Valid(params) =>
    /\ \A k \in 1..Len(model.tieBeams) :
         /\ Eq(model.tieBeams[k].start.z, Neg(Sub(Half(params.width), Half(PILLAR_SIZE))))
         /\ Eq(model.tieBeams[k].end.z, Sub(Half(params.width), Half(PILLAR_SIZE)))
    /\ \A k \in 1..Len(model.basePurlins) :
         /\ Eq(model.basePurlins[k].start.x, Neg(Add(Half(params.length), params.gableOverhang)))
         /\ Eq(model.basePurlins[k].end.x, Add(Half(params.length), params.gableOverhang))
    /\ \A i \in 1..Len(model.kneeBraces) :
         LET b == model.kneeBraces[i]
             Attached(q) == OnTieBeam(q) \/ OnBasePurlin(q) \/ OnPillar(q)
         IN  Attached(b.start) /\ Attached(b.end)

\* the number of meshes buildRoofMeshes makes of the current model
MeshCount ==
  Len(model.pillars) + Len(model.basePurlins) + Len(model.tieBeams)
    + Len(model.rafters) + Len(model.ridgeTies) + Len(model.kneeBraces) + 1

\* C29: after any sequence of updateModel calls the scene holds exactly one
\* model group, the one built from the model passed last, with all of its
\* meshes; every geometry of every earlier group has been disposed; and
\* the shared materials have not been disposed.
C29_OneModelGroup ==
  /\ Len(scene.children) = 1
  /\ scene.modelGroup = 1
  /\ scene.children[1].builtFrom = model.params
  /\ scene.children[1].meshes = MeshCount
  /\ scene.children[1].liveGeometries = MeshCount
  /\ scene.orphanGeometries = 0
  /\ matDisposed = FALSE

\* a second model has been passed: 3 pillar rows and centre pillars
C29_Witness ==
  /\ params.length = R(5, 1)
  /\ params.width = R(4, 1)
  /\ scene.children[scene.modelGroup].builtFrom = params
  /\ scene.children[scene.modelGroup].meshes > 33
  /\ Len(model.pillars) = 8

\* C30: however the slider and checkbox events interleave with the
\* settlement of fetchPrices, the pricing panel shows a total only when the
\* fetch has resolved, shows 'prices unavailable' only when the fetch
\* itself has rejected, and once the fetch has rejected shows 'prices
\* unavailable' whatever update() runs afterwards.
C30_PricingPanel ==
  /\ pricing.kind = "total" => fetchState = "resolved"
  /\ pricing.kind = "unavailable" => fetchState = "rejected"
  /\ fetchState = "rejected" => pricing = Unavailable

====
